---- MODULE Spec2Model ----
(***************************************************************************)
(* Grid trading engine of sui-mcp-agent: GridTradingStrategy, the variant  *)
(* that reacts to level crossings (checkPriceMovement) and keeps running   *)
(* base/quote balances and an append-only trade history.                   *)
(*                                                                         *)
(* JavaScript numbers are modelled as exact rationals [n, d] in lowest     *)
(* terms with d > 0: every +, -, *, / and Math.floor of the source is the  *)
(* corresponding rational operation.  Floating-point rounding is not       *)
(* modelled.  The timestamp of an order (wall clock, display only) is left *)
(* out of the order record.                                                *)
(***************************************************************************)
EXTENDS Integers, Sequences, FiniteSets, TLC

\* ------------------------------------------------------------------ bounds
\* Number of checkPriceMovement calls explored.
MaxObs == 5
\* Number of checkPriceMovement calls explored together with the accessors.
MaxApiObs == 3
\* Observed prices are the integers 1..MaxPrice.
MaxPrice == 8

\* ------------------------------------------------------------- arithmetic
RECURSIVE GCD(_, _)
GCD(a, b) == IF b = 0 THEN a ELSE GCD(b, a % b)

Abs(x) == IF x < 0 THEN -x ELSE x

\* The number n/d in lowest terms with a positive denominator.  A positive
\* (negative) number divided by 0 is [n |-> 1, d |-> 0] ([n |-> -1, d |-> 0]),
\* JavaScript's Infinity (-Infinity); 0/0 (NaN) does not occur in the model.
Norm(n, d) ==
  LET g == GCD(Abs(n), Abs(d))
      s == IF d < 0 THEN -1 ELSE 1
  IN  [n |-> (s * n) \div g, d |-> (s * d) \div g]

R(i) == [n |-> i, d |-> 1]
Zero == R(0)

RAdd(a, b) == Norm(a.n * b.d + b.n * a.d, a.d * b.d)
RSub(a, b) == Norm(a.n * b.d - b.n * a.d, a.d * b.d)
RMul(a, b) == Norm(a.n * b.n, a.d * b.d)
RDiv(a, b) == Norm(a.n * b.d, a.d * b.n)
RLt(a, b) == a.n * b.d < b.n * a.d
RLe(a, b) == a.n * b.d <= b.n * a.d
RMin(a, b) == IF RLt(b, a) THEN b ELSE a
\* Math.floor
Floor(a) == a.n \div a.d

\* ------------------------------------------------------------------ state
VARIABLES
  config,             \* GridTradingConfig (readonly after construction)
  gridSpacing,        \* (upperPrice - lowerPrice) / gridCount
  gridLevels,         \* 0..gridCount -> GridLevel
  lastPrice,          \* number | null
  executedOrders,     \* ExecutedOrder[]
  baseTokenBalance,
  quoteTokenBalance,
  calls,              \* number of checkPriceMovement calls made so far
  observation,        \* the price passed to the last call (null before it)
  previous,           \* the price passed to the call before it (null before it)
  outcome,            \* how the last call ended: "none", "returned", "TypeError"
  attempt,            \* the order the last call attempted: "none", "buy", "sell"
  filled,             \* what executeBuy / executeSell returned in the last call
  returned,           \* the last call of the public interface: [op, arg, value]
  position,           \* PositionManager.position (null without a manager)
  managerOrders,      \* PositionManager.orders in insertion order (null without a manager)
  strategies,         \* the limit-order GridTradingStrategy instances (null without one)
  initialPosition     \* the Position object their caller passes to the constructor

vars == <<config, gridSpacing, gridLevels, lastPrice, executedOrders,
          baseTokenBalance, quoteTokenBalance, calls, observation, previous,
          outcome, attempt, filled, returned, position, managerOrders,
          strategies, initialPosition>>

Null == [null |-> TRUE]

\* A call of the public interface with its argument and what it returned
\* (for the constructor: the message of the error thrown, "none" without one).
Call(op, arg, value) == [op |-> op, arg |-> arg, value |-> value]

\* Configurations the constructor accepts and the data model calls valid
\* (upperPrice > lowerPrice > 0, integer gridCount >= 2, totalInvestment > 0).
Configs ==
  { [lowerPrice |-> R(2), upperPrice |-> R(5), gridCount |-> R(2), totalInvestment |-> R(8)],
    [lowerPrice |-> R(1), upperPrice |-> R(7), gridCount |-> R(2), totalInvestment |-> R(6)],
    [lowerPrice |-> R(2), upperPrice |-> R(8), gridCount |-> R(3), totalInvestment |-> R(12)] }

Prices == { R(i) : i \in 1..MaxPrice }

\* ------------------------------------------------------------ construction
\* validateConfig that rejects the minimum grid count.
ValidationErrorAboveTwo(c) ==
  IF RLe(c.upperPrice, c.lowerPrice)
  THEN "Upper price must be greater than lower price"
  ELSE IF RLe(c.gridCount, R(2))
  THEN "Grid count must be at least 2"
  ELSE IF RLe(c.totalInvestment, Zero)
  THEN "Total investment must be greater than 0"
  ELSE "none"

\* The message of the error validateConfig throws, "none" when it returns.
ValidationError(c) ==
  IF RLe(c.upperPrice, c.lowerPrice)
  THEN "Upper price must be greater than lower price"
  ELSE IF RLt(c.gridCount, R(2))
  THEN "Grid count must be at least 2"
  ELSE IF RLe(c.totalInvestment, Zero)
  THEN "Total investment must be greater than 0"
  ELSE "none"

ValidateConfig(c) == ValidationError(c) = "none"

GridSpacing(c) == RDiv(RSub(c.upperPrice, c.lowerPrice), c.gridCount)

LevelPrice(c, i) == RAdd(c.lowerPrice, RMul(R(i), GridSpacing(c)))

\* Order size with the investment divided among the gridCount + 1 levels.
BuyOrderSizePerLevel(c, i) ==
  LET investmentPerGrid == RDiv(c.totalInvestment, RAdd(c.gridCount, R(1)))
  IN  RDiv(investmentPerGrid, LevelPrice(c, i))

\* Order size computed from lowerPrice for every level.
BuyOrderSizeAtLower(c, i) ==
  LET investmentPerGrid == RDiv(c.totalInvestment, c.gridCount)
  IN  RDiv(investmentPerGrid, c.lowerPrice)

BuyOrderSize(c, i) ==
  LET investmentPerGrid == RDiv(c.totalInvestment, c.gridCount)
  IN  RDiv(investmentPerGrid, LevelPrice(c, i))

\* calculateGridLevels whose loop runs while i < gridCount.
CalculateGridLevelsExclusive(c) ==
  [i \in 0..(Floor(c.gridCount) - 1) |->
     [price |-> LevelPrice(c, i),
      buyOrderSize |-> BuyOrderSize(c, i),
      sellOrderSize |-> IF i > 0 THEN BuyOrderSize(c, i - 1) ELSE Zero]]

\* calculateGridLevels that gives a level its own buy size to sell.
CalculateGridLevelsOwnSize(c) ==
  [i \in 0..Floor(c.gridCount) |->
     [price |-> LevelPrice(c, i),
      buyOrderSize |-> BuyOrderSize(c, i),
      sellOrderSize |-> BuyOrderSize(c, i)]]

\* The loop runs for i = 0, 1, ... while i <= gridCount.
CalculateGridLevels(c) ==
  [i \in 0..Floor(c.gridCount) |->
     [price |-> LevelPrice(c, i),
      buyOrderSize |-> BuyOrderSize(c, i),
      sellOrderSize |-> IF i > 0 THEN BuyOrderSize(c, i - 1) ELSE Zero]]

Init ==
  /\ config \in { c \in Configs : ValidateConfig(c) }
  /\ gridSpacing = GridSpacing(config)
  /\ gridLevels = CalculateGridLevels(config)
  /\ lastPrice = Null
  /\ executedOrders = << >>
  /\ baseTokenBalance = Zero
  /\ quoteTokenBalance = config.totalInvestment
  /\ calls = 0
  /\ observation = Null
  /\ previous = Null
  /\ outcome = "none"
  /\ attempt = "none"
  /\ filled = FALSE
  /\ returned = Call("constructor", config, "none")
  /\ position = Null
  /\ managerOrders = Null
  /\ strategies = Null
  /\ initialPosition = Null

\* ----------------------------------------------------------------- lookups
\* getCurrentGridIndex with Math.ceil.
GetCurrentGridIndexCeil(currentPrice) ==
  IF RLt(currentPrice, config.lowerPrice) \/ RLt(config.upperPrice, currentPrice)
  THEN -1
  ELSE - Floor(RDiv(RSub(config.lowerPrice, currentPrice), gridSpacing))

\* getCurrentGridIndex that also treats the two boundary prices as out of range.
GetCurrentGridIndexExclusive(currentPrice) ==
  IF RLe(currentPrice, config.lowerPrice) \/ RLe(config.upperPrice, currentPrice)
  THEN -1
  ELSE Floor(RDiv(RSub(currentPrice, config.lowerPrice), gridSpacing))

GetCurrentGridIndex(currentPrice) ==
  IF RLt(currentPrice, config.lowerPrice) \/ RLt(config.upperPrice, currentPrice)
  THEN -1
  ELSE Floor(RDiv(RSub(currentPrice, config.lowerPrice), gridSpacing))

\* gridLevels[index] is undefined for index -1, and reading a property of it
\* throws a TypeError.
GetOrderSizeAtPrice(price, orderType) ==
  LET index == GetCurrentGridIndex(price)
  IN  IF index \notin DOMAIN gridLevels
      THEN [threw |-> TRUE, value |-> Zero]
      ELSE [threw |-> FALSE,
            value |-> IF orderType = "buy" THEN gridLevels[index].buyOrderSize
                      ELSE gridLevels[index].sellOrderSize]

\* --------------------------------------------------------- order execution
\* What a private method did: whether it threw, the value it returned, and
\* the history and balances it left.
Ledger(threw, ret, orders, base, quote) ==
  [threw |-> threw, ret |-> ret, orders |-> orders, base |-> base, quote |-> quote]

\* executeBuy without the solvency check.
ExecuteBuyUnchecked(price) ==
  LET size == GetOrderSizeAtPrice(price, "buy")
      quantity == size.value
      cost == RMul(quantity, price)
  IN  IF size.threw
      THEN Ledger(TRUE, FALSE, executedOrders, baseTokenBalance, quoteTokenBalance)
      ELSE Ledger(FALSE, TRUE,
                  Append(executedOrders,
                         [type |-> "buy", price |-> price, quantity |-> quantity,
                          gridIndex |-> GetCurrentGridIndex(price)]),
                  RAdd(baseTokenBalance, quantity),
                  RSub(quoteTokenBalance, cost))

\* executeBuy that records the order and credits base but forgets to debit
\* quote.
ExecuteBuyNoDebit(price) ==
  LET size == GetOrderSizeAtPrice(price, "buy")
      quantity == size.value
      cost == RMul(quantity, price)
  IN  IF size.threw
      THEN Ledger(TRUE, FALSE, executedOrders, baseTokenBalance, quoteTokenBalance)
      ELSE IF RLt(quoteTokenBalance, cost)
      THEN Ledger(FALSE, FALSE, executedOrders, baseTokenBalance, quoteTokenBalance)
      ELSE Ledger(FALSE, TRUE,
                  Append(executedOrders,
                         [type |-> "buy", price |-> price, quantity |-> quantity,
                          gridIndex |-> GetCurrentGridIndex(price)]),
                  RAdd(baseTokenBalance, quantity),
                  quoteTokenBalance)

\* executeBuy that raises an error when the quote balance is too small.
ExecuteBuyRaises(price) ==
  LET size == GetOrderSizeAtPrice(price, "buy")
      quantity == size.value
      cost == RMul(quantity, price)
  IN  IF size.threw \/ RLt(quoteTokenBalance, cost)
      THEN Ledger(TRUE, FALSE, executedOrders, baseTokenBalance, quoteTokenBalance)
      ELSE Ledger(FALSE, TRUE,
                  Append(executedOrders,
                         [type |-> "buy", price |-> price, quantity |-> quantity,
                          gridIndex |-> GetCurrentGridIndex(price)]),
                  RAdd(baseTokenBalance, quantity),
                  RSub(quoteTokenBalance, cost))

\* executeBuy that assigns a new history holding only the new order.
ExecuteBuyOverwrites(price) ==
  LET size == GetOrderSizeAtPrice(price, "buy")
      quantity == size.value
      cost == RMul(quantity, price)
  IN  IF size.threw
      THEN Ledger(TRUE, FALSE, executedOrders, baseTokenBalance, quoteTokenBalance)
      ELSE IF RLt(quoteTokenBalance, cost)
      THEN Ledger(FALSE, FALSE, executedOrders, baseTokenBalance, quoteTokenBalance)
      ELSE Ledger(FALSE, TRUE,
                  <<[type |-> "buy", price |-> price, quantity |-> quantity,
                     gridIndex |-> GetCurrentGridIndex(price)]>>,
                  RAdd(baseTokenBalance, quantity),
                  RSub(quoteTokenBalance, cost))

\* executeBuy that also skips when the balance equals the cost.
ExecuteBuyNeedsMore(price) ==
  LET size == GetOrderSizeAtPrice(price, "buy")
      quantity == size.value
      cost == RMul(quantity, price)
  IN  IF size.threw
      THEN Ledger(TRUE, FALSE, executedOrders, baseTokenBalance, quoteTokenBalance)
      ELSE IF RLe(quoteTokenBalance, cost)
      THEN Ledger(FALSE, FALSE, executedOrders, baseTokenBalance, quoteTokenBalance)
      ELSE Ledger(FALSE, TRUE,
                  Append(executedOrders,
                         [type |-> "buy", price |-> price, quantity |-> quantity,
                          gridIndex |-> GetCurrentGridIndex(price)]),
                  RAdd(baseTokenBalance, quantity),
                  RSub(quoteTokenBalance, cost))

ExecuteBuy(price) ==
  LET size == GetOrderSizeAtPrice(price, "buy")
      quantity == size.value
      cost == RMul(quantity, price)
  IN  IF size.threw
      THEN Ledger(TRUE, FALSE, executedOrders, baseTokenBalance, quoteTokenBalance)
      ELSE IF RLt(quoteTokenBalance, cost)
      THEN Ledger(FALSE, FALSE, executedOrders, baseTokenBalance, quoteTokenBalance)
      ELSE Ledger(FALSE, TRUE,
                  Append(executedOrders,
                         [type |-> "buy", price |-> price, quantity |-> quantity,
                          gridIndex |-> GetCurrentGridIndex(price)]),
                  RAdd(baseTokenBalance, quantity),
                  RSub(quoteTokenBalance, cost))

\* executeSell without the check that the base balance covers the sale.
ExecuteSellUnchecked(price) ==
  LET size == GetOrderSizeAtPrice(price, "sell")
      quantity == size.value
  IN  IF size.threw
      THEN Ledger(TRUE, FALSE, executedOrders, baseTokenBalance, quoteTokenBalance)
      ELSE Ledger(FALSE, TRUE,
                  Append(executedOrders,
                         [type |-> "sell", price |-> price, quantity |-> quantity,
                          gridIndex |-> GetCurrentGridIndex(price)]),
                  RSub(baseTokenBalance, quantity),
                  RAdd(quoteTokenBalance, RMul(quantity, price)))

ExecuteSell(price) ==
  LET size == GetOrderSizeAtPrice(price, "sell")
      quantity == size.value
  IN  IF size.threw
      THEN Ledger(TRUE, FALSE, executedOrders, baseTokenBalance, quoteTokenBalance)
      ELSE IF RLt(baseTokenBalance, quantity)
      THEN Ledger(FALSE, FALSE, executedOrders, baseTokenBalance, quoteTokenBalance)
      ELSE Ledger(FALSE, TRUE,
                  Append(executedOrders,
                         [type |-> "sell", price |-> price, quantity |-> quantity,
                          gridIndex |-> GetCurrentGridIndex(price)]),
                  RSub(baseTokenBalance, quantity),
                  RAdd(quoteTokenBalance, RMul(quantity, price)))

\* ------------------------------------------------------- crossing detector
\* The order a first observation triggers (lastPrice === null).
FirstObservation(currentIndex) ==
  IF currentIndex = 0 THEN "buy" ELSE "none"

\* A crossing test that also buys when the index has not changed.
CrossingOnEqual(currentIndex, previousIndex) ==
  IF currentIndex <= previousIndex THEN "buy"
  ELSE IF currentIndex > previousIndex THEN "sell"
  ELSE "none"

\* The order a later observation triggers.
Crossing(currentIndex, previousIndex) ==
  IF currentIndex < previousIndex THEN "buy"
  ELSE IF currentIndex > previousIndex THEN "sell"
  ELSE "none"

CheckPriceMovement(currentPrice) ==
  LET currentIndex == GetCurrentGridIndex(currentPrice)
      order == IF lastPrice = Null
               THEN FirstObservation(currentIndex)
               ELSE Crossing(currentIndex, GetCurrentGridIndex(lastPrice))
      res == CASE order = "buy" -> ExecuteBuy(currentPrice)
               [] order = "sell" -> ExecuteSell(currentPrice)
               [] OTHER -> Ledger(FALSE, FALSE, executedOrders,
                                  baseTokenBalance, quoteTokenBalance)
  IN  /\ calls < MaxObs
      /\ calls' = calls + 1
      /\ observation' = currentPrice
      /\ previous' = observation
      /\ attempt' = order
      /\ filled' = res.ret
      /\ executedOrders' = res.orders
      /\ baseTokenBalance' = res.base
      /\ quoteTokenBalance' = res.quote
      \* an exception leaves the method before lastPrice is assigned
      /\ lastPrice' = IF res.threw THEN lastPrice ELSE currentPrice
      /\ outcome' = IF res.threw THEN "TypeError" ELSE "returned"
      /\ returned' = Call("checkPriceMovement", currentPrice, Null)
      /\ UNCHANGED <<strategies, initialPosition, position, managerOrders,
                     config, gridSpacing, gridLevels>>

\* ------------------------------------------------------------ profit/loss
\* One pass of the while loop that matches a sell against the oldest buys.
\* st.unmatched accumulates the sell quantity still open when the loop ends
\* (the source drops it).
RECURSIVE MatchSell(_, _, _)
MatchSell(st, sellPrice, sellQtyRemaining) ==
  IF RLt(Zero, sellQtyRemaining) /\ Len(st.buyStack) > 0
  THEN LET oldestBuy == Head(st.buyStack)
           usedQty == RMin(sellQtyRemaining, oldestBuy.quantity)
           left == RSub(oldestBuy.quantity, usedQty)
       IN  MatchSell(
             [buyStack |-> IF left = Zero
                           THEN Tail(st.buyStack)
                           ELSE <<[price |-> oldestBuy.price, quantity |-> left]>>
                                \o Tail(st.buyStack),
              realizedPnL |-> RAdd(st.realizedPnL,
                                   RMul(RSub(sellPrice, oldestBuy.price), usedQty)),
              totalRemainingQty |-> RSub(st.totalRemainingQty, usedQty),
              unmatched |-> st.unmatched],
             sellPrice, RSub(sellQtyRemaining, usedQty))
  ELSE [st EXCEPT !.unmatched = RAdd(st.unmatched, sellQtyRemaining)]

\* The loop over executedOrders that rebuilds the queue of open buy lots.
RECURSIVE FifoReplay(_)
FifoReplay(orders) ==
  IF orders = << >>
  THEN [buyStack |-> << >>, realizedPnL |-> Zero, totalRemainingQty |-> Zero,
        unmatched |-> Zero]
  ELSE LET st == FifoReplay(SubSeq(orders, 1, Len(orders) - 1))
           order == orders[Len(orders)]
       IN  IF order.type = "buy"
           THEN [st EXCEPT
                   !.buyStack = Append(st.buyStack,
                                       [price |-> order.price, quantity |-> order.quantity]),
                   !.totalRemainingQty = RAdd(st.totalRemainingQty, order.quantity)]
           ELSE MatchSell(st, order.price, order.quantity)

RECURSIVE SumCost(_)
SumCost(buyStack) ==
  IF buyStack = << >> THEN Zero
  ELSE RAdd(SumCost(SubSeq(buyStack, 1, Len(buyStack) - 1)),
            RMul(buyStack[Len(buyStack)].price, buyStack[Len(buyStack)].quantity))

\* getCurrentProfitLoss with the plain mean of the open lots' prices as
\* average cost.
GetCurrentProfitLossUnweighted(currentPrice) ==
  LET st == FifoReplay(executedOrders)
      averageCost == IF RLt(Zero, st.totalRemainingQty)
                     THEN RDiv(SumCost(st.buyStack),
                               RMul(st.totalRemainingQty, R(Len(st.buyStack))))
                     ELSE Zero
      unrealizedPnL == RMul(st.totalRemainingQty, RSub(currentPrice, averageCost))
  IN  RAdd(st.realizedPnL, unrealizedPnL)

GetCurrentProfitLoss(currentPrice) ==
  LET st == FifoReplay(executedOrders)
      averageCost == IF RLt(Zero, st.totalRemainingQty)
                     THEN RDiv(SumCost(st.buyStack), st.totalRemainingQty)
                     ELSE Zero
      unrealizedPnL == RMul(st.totalRemainingQty, RSub(currentPrice, averageCost))
  IN  RAdd(st.realizedPnL, unrealizedPnL)

\* -------------------------------------------------------------- accessors
\* Total quantity of the orders of one type.
RECURSIVE SumQty(_, _)
SumQty(orders, type) ==
  IF orders = << >> THEN Zero
  ELSE LET o == orders[Len(orders)]
           rest == SumQty(SubSeq(orders, 1, Len(orders) - 1), type)
       IN  IF o.type = type THEN RAdd(rest, o.quantity) ELSE rest

\* The history as a replay would leave it if buyStack held the order objects
\* themselves: every buy keeps the quantity the sells have not consumed.
RECURSIVE Drain(_, _)
Drain(orders, sold) ==
  IF orders = << >> THEN << >>
  ELSE LET o == Head(orders)
           used == IF o.type = "buy" THEN RMin(sold, o.quantity) ELSE Zero
       IN  <<[o EXCEPT !.quantity = RSub(o.quantity, used)]>>
           \o Drain(Tail(orders), RSub(sold, used))

\* getCurrentProfitLoss with buyStack.push(order) instead of a fresh object.
ProfitLossCallAliased(currentPrice) ==
  [orders |-> Drain(executedOrders, SumQty(executedOrders, "sell")),
   value |-> GetCurrentProfitLoss(currentPrice)]

\* What a call of getCurrentProfitLoss leaves in executedOrders and returns:
\* buyStack holds fresh {price, quantity} objects, so the decrements and
\* shifts of the replay do not reach the recorded orders.
ProfitLossCall(currentPrice) ==
  [orders |-> executedOrders, value |-> GetCurrentProfitLoss(currentPrice)]

CallGetCurrentProfitLoss(currentPrice) ==
  LET r == ProfitLossCall(currentPrice)
  IN  /\ executedOrders' = r.orders
      /\ returned' = Call("getCurrentProfitLoss", currentPrice, r.value)
      /\ UNCHANGED <<strategies, initialPosition, position, managerOrders,
                     config, gridSpacing, gridLevels, lastPrice,
                     baseTokenBalance, quoteTokenBalance, calls, observation,
                     previous, outcome, attempt, filled>>

\* [...this.executedOrders]: a new array holding the same order objects.
GetTradeHistory ==
  /\ returned' = Call("getTradeHistory", Null, executedOrders)
  /\ UNCHANGED <<strategies, initialPosition, position, managerOrders,
                 config, gridSpacing, gridLevels, lastPrice, executedOrders,
                 baseTokenBalance, quoteTokenBalance, calls, observation,
                 previous, outcome, attempt, filled>>

\* [...this.gridLevels]: a new array holding the same level objects.
GetGridLevels ==
  /\ returned' = Call("getGridLevels", Null, gridLevels)
  /\ UNCHANGED <<strategies, initialPosition, position, managerOrders,
                 config, gridSpacing, gridLevels, lastPrice, executedOrders,
                 baseTokenBalance, quoteTokenBalance, calls, observation,
                 previous, outcome, attempt, filled>>

\* --------------------------------------------------------- specifications
Next == \E p \in Prices : CheckPriceMovement(p)

Spec == Init /\ [][Next]_vars

\* The engine with its whole public interface.
Observe(p) == calls < MaxApiObs /\ CheckPriceMovement(p)

NextApi ==
  \/ \E p \in Prices : Observe(p)
  \/ \E p \in Prices : CallGetCurrentProfitLoss(p)
  \/ GetTradeHistory
  \/ GetGridLevels

SpecApi == Init /\ [][NextApi]_vars

\* ------------------------------------------------------------ the caller
\* The arrays returned by getTradeHistory and getGridLevels are new arrays
\* whose elements are the engine's own order and level objects
\* ([...this.executedOrders], [...this.gridLevels]).  A caller holding the
\* array last returned can change the array itself, which the engine does
\* not share, or a field of one of its elements, which the engine does.
\* The caller explored here makes at most MaxCallerObs observations, writes
\* the value 0, and tampers with at most one level.
MaxCallerObs == 2

CallerValue == Zero

CallerWritesOrder(k, q) ==
  /\ returned.op = "getTradeHistory"
  /\ k \in 1..Len(returned.value)
  /\ returned.value[k].quantity # q
  /\ returned' = [returned EXCEPT !.value[k].quantity = q]
  /\ executedOrders' = [executedOrders EXCEPT ![k].quantity = q]
  /\ UNCHANGED <<strategies, initialPosition, position, managerOrders,
                 config, gridSpacing, gridLevels, lastPrice,
                 baseTokenBalance, quoteTokenBalance, calls, observation,
                 previous, outcome, attempt, filled>>

CallerWritesLevel(i, q) ==
  /\ returned.op = "getGridLevels"
  /\ i \in DOMAIN returned.value
  /\ gridLevels = CalculateGridLevels(config)
  /\ returned' = [returned EXCEPT !.value[i].buyOrderSize = q]
  /\ gridLevels' = [gridLevels EXCEPT ![i].buyOrderSize = q]
  /\ UNCHANGED <<strategies, initialPosition, position, managerOrders,
                 config, gridSpacing, executedOrders, lastPrice,
                 baseTokenBalance, quoteTokenBalance, calls, observation,
                 previous, outcome, attempt, filled>>

\* history.pop() on the returned array.
CallerPopsOrder ==
  /\ returned.op = "getTradeHistory"
  /\ Len(returned.value) >= 1
  /\ returned' = [returned EXCEPT !.value = SubSeq(@, 1, Len(@) - 1)]
  /\ UNCHANGED <<strategies, initialPosition, position, managerOrders,
                 config, gridSpacing, gridLevels, lastPrice, executedOrders,
                 baseTokenBalance, quoteTokenBalance, calls, observation,
                 previous, outcome, attempt, filled>>

ObserveCaller(p) == calls < MaxCallerObs /\ CheckPriceMovement(p)

NextCaller ==
  \/ \E p \in Prices : ObserveCaller(p)
  \/ \E p \in Prices : CallGetCurrentProfitLoss(p)
  \/ GetTradeHistory
  \/ GetGridLevels
  \/ \E k \in 1..MaxCallerObs : CallerWritesOrder(k, CallerValue)
  \/ \E i \in 0..MaxPrice : CallerWritesLevel(i, CallerValue)
  \/ CallerPopsOrder

SpecCaller == Init /\ [][NextCaller]_vars

\* -------------------------------------------------------- the constructor
\* Arguments tried with new GridTradingStrategy(...): prices are the integers
\* -1..MaxCtorPrice, grid counts the halves 0, 1/2, 1, ... MaxCtorGridCount,
\* investments -1, 0 and two positive amounts.
MaxCtorPrice == 3
MaxCtorGridCount == 4

CtorConfigs ==
  { [lowerPrice |-> R(l), upperPrice |-> R(u), gridCount |-> Norm(k, 2),
     totalInvestment |-> R(t)] :
      l \in -1..MaxCtorPrice, u \in -1..MaxCtorPrice,
      k \in 0..(2 * MaxCtorGridCount), t \in {-1, 0, 6, 12} }

\* No strategy object exists yet.
InitCtor ==
  /\ config = Null
  /\ gridSpacing = Null
  /\ gridLevels = Null
  /\ lastPrice = Null
  /\ executedOrders = << >>
  /\ baseTokenBalance = Zero
  /\ quoteTokenBalance = Zero
  /\ calls = 0
  /\ observation = Null
  /\ previous = Null
  /\ outcome = "none"
  /\ attempt = "none"
  /\ filled = FALSE
  /\ returned = Call("none", Null, Null)
  /\ position = Null
  /\ managerOrders = Null
  /\ strategies = Null
  /\ initialPosition = Null

\* new GridTradingStrategy(c), the first operation of a run: validateConfig
\* throws before any field is assigned, otherwise the fields are set as in
\* lines 41-44.
Construct(c) ==
  /\ returned.op = "none"
  /\ returned' = Call("constructor", c, ValidationError(c))
  /\ IF ValidateConfig(c)
     THEN /\ config' = c
          /\ gridSpacing' = GridSpacing(c)
          /\ gridLevels' = CalculateGridLevels(c)
          /\ quoteTokenBalance' = c.totalInvestment
     ELSE UNCHANGED <<config, gridSpacing, gridLevels, quoteTokenBalance>>
  /\ UNCHANGED <<strategies, initialPosition, position, managerOrders,
                 lastPrice, executedOrders, baseTokenBalance, calls,
                 observation, previous, outcome, attempt, filled>>

GetConstructedGridLevels == config # Null /\ GetGridLevels

NextCtor ==
  \/ \E c \in CtorConfigs : Construct(c)
  \/ GetConstructedGridLevels

SpecCtor == InitCtor /\ [][NextCtor]_vars

\* ------------------------------------------------ the configuration of the tests
\* The grid of the test suite: 20000-30000, 10 grids, 100000 invested, with
\* at most MaxTestObs observations taken from the level prices 20000, 21000,
\* 22000 and the price 20500 between two levels.
MaxTestObs == 5

TestConfig ==
  [lowerPrice |-> R(20000), upperPrice |-> R(30000), gridCount |-> R(10),
   totalInvestment |-> R(100000)]

TestPrices == { R(20000), R(20500), R(21000), R(22000) }

InitTest ==
  /\ config = TestConfig
  /\ ValidateConfig(config)
  /\ gridSpacing = GridSpacing(config)
  /\ gridLevels = CalculateGridLevels(config)
  /\ lastPrice = Null
  /\ executedOrders = << >>
  /\ baseTokenBalance = Zero
  /\ quoteTokenBalance = config.totalInvestment
  /\ calls = 0
  /\ observation = Null
  /\ previous = Null
  /\ outcome = "none"
  /\ attempt = "none"
  /\ filled = FALSE
  /\ returned = Call("constructor", config, "none")
  /\ position = Null
  /\ managerOrders = Null
  /\ strategies = Null
  /\ initialPosition = Null

ObserveTest(p) == calls < MaxTestObs /\ CheckPriceMovement(p)

NextTest ==
  \/ \E p \in TestPrices : ObserveTest(p)
  \/ \E p \in TestPrices : CallGetCurrentProfitLoss(p)

SpecTest == InitTest /\ [][NextTest]_vars

\* ----------------------------------------------------- getCurrentGridIndex
\* Prices passed to getCurrentGridIndex: the quarters 0, 1/4, ... MaxPrice + 1,
\* which lie below, on, between and above the levels of every config.
IndexPrices == { Norm(k, 4) : k \in 0..(4 * (MaxPrice + 1)) }

CallGetCurrentGridIndex(p) ==
  /\ returned' = Call("getCurrentGridIndex", p, GetCurrentGridIndex(p))
  /\ UNCHANGED <<strategies, initialPosition, position, managerOrders,
                 config, gridSpacing, gridLevels, lastPrice, executedOrders,
                 baseTokenBalance, quoteTokenBalance, calls, observation,
                 previous, outcome, attempt, filled>>

NextIndex == \E p \in IndexPrices : CallGetCurrentGridIndex(p)

SpecIndex == Init /\ [][NextIndex]_vars

\* ------------------------------------------------ rising and falling prices
\* A fresh engine with one of the small configs or the config of the tests.
InitLadder == Init \/ InitTest

\* Prices offered to the engine of the tests: its range 20000..30000 in
\* quarter steps of its levels.
LadderPrices == { R(20000 + 250 * k) : k \in 0..40 }

\* The first observation is the lowest level and every later one lies one
\* level above the one before it.
ObserveUp(p) ==
  /\ IF calls = 0
     THEN p = config.lowerPrice
     ELSE GetCurrentGridIndex(p) = GetCurrentGridIndex(observation) + 1
  /\ CheckPriceMovement(p)

NextUp == \E p \in Prices \cup LadderPrices : ObserveUp(p)

SpecUp == InitLadder /\ [][NextUp]_vars

\* The first observation lies above the lowest level and every later one is
\* the price of the level below the one before it.
ObserveDown(p) ==
  /\ IF calls = 0
     THEN GetCurrentGridIndex(p) >= 1
     ELSE /\ GetCurrentGridIndex(observation) >= 1
          /\ p = gridLevels[GetCurrentGridIndex(observation) - 1].price
  /\ CheckPriceMovement(p)

NextDown ==
  \E p \in Prices \cup LadderPrices \cup { gridLevels[i].price : i \in DOMAIN gridLevels } :
     ObserveDown(p)

SpecDown == InitLadder /\ [][NextDown]_vars

\* ------------------------------------------------------- position manager
\* PositionManager of src/unnamed/part_001: a position and a map of orders.
\* The map is kept in insertion order and an order's id is its place in it
\* (generateOrderId is taken to hand out distinct ids).
MaxPmOrders == 3

\* The defaults of the constructor, which are also the values of the tests.
maxLeverage == R(3)
minOrderSize == Norm(1, 100)
maxOrderSize == R(100)

InvalidOrder == "Invalid order or order already executed"
InvalidCancel == "Invalid order or order already executed/cancelled"
InsufficientQuote == "Insufficient quote token balance"
InsufficientBase == "Insufficient base token balance"

\* What a call leaves behind: the message of the error it threw ("none"
\* without one), the position and the orders.
Manager(threw, pos, ords) == [threw |-> threw, position |-> pos, orders |-> ords]

InitPm ==
  /\ config = Null
  /\ gridSpacing = Null
  /\ gridLevels = Null
  /\ lastPrice = Null
  /\ executedOrders = << >>
  /\ baseTokenBalance = Zero
  /\ quoteTokenBalance = Zero
  /\ calls = 0
  /\ observation = Null
  /\ previous = Null
  /\ outcome = "none"
  /\ attempt = "none"
  /\ filled = FALSE
  /\ returned = Call("none", Null, Null)
  /\ position = [baseAmount |-> Zero, quoteAmount |-> Zero,
                 averageEntryPrice |-> Zero]
  /\ managerOrders = << >>
  /\ strategies = Null
  /\ initialPosition = Null

\* The strategy object plays no part in a run of the position manager.
StrategyUnchanged ==
  UNCHANGED <<strategies, initialPosition, config, gridSpacing, gridLevels,
              lastPrice, executedOrders, baseTokenBalance, quoteTokenBalance,
              calls, observation, previous, outcome, attempt, filled>>

CalculateTotalExposure(price, size) ==
  IF position.quoteAmount = Zero THEN R(1)
  ELSE RDiv(RAdd(RMul(position.baseAmount, price), RMul(size, price)),
            position.quoteAmount)

\* validateOrderParams: the message of the error thrown, "none" without one.
ValidateOrderParams(type, price, size) ==
  IF RLe(price, Zero) THEN "Price must be positive"
  ELSE IF RLt(size, minOrderSize) THEN "Order size must be at least 0.01"
  ELSE IF RLt(maxOrderSize, size) THEN "Order size must not exceed 100"
  ELSE IF /\ type = "buy"
          /\ RLt(Zero, position.baseAmount)
          /\ RLt(position.quoteAmount, RMul(price, size))
    THEN InsufficientQuote
  ELSE IF /\ type = "buy"
          /\ RLt(Zero, position.baseAmount)
          /\ RLt(maxLeverage, CalculateTotalExposure(price, size))
    THEN "Total exposure exceeds maximum leverage of 3x"
  ELSE "none"

CreateOrder(type, price, size) ==
  LET threw == ValidateOrderParams(type, price, size)
      order == [id |-> Len(managerOrders) + 1, type |-> type, price |-> price,
                size |-> size, status |-> "pending"]
  IN  /\ Len(managerOrders) < MaxPmOrders
      /\ IF threw = "none"
           THEN /\ managerOrders' = Append(managerOrders, order)
                /\ returned' = Call("createOrder", order, "none")
           ELSE /\ UNCHANGED managerOrders
                /\ returned' = Call("createOrder",
                                    [type |-> type, price |-> price, size |-> size],
                                    threw)
      /\ UNCHANGED position
      /\ StrategyUnchanged

\* The average of a buy is taken after baseAmount has grown by size.
UpdateAverageEntryPriceWholeBase(pos, type, price, size) ==
  IF type = "buy"
    THEN RDiv(RAdd(RMul(pos.averageEntryPrice, pos.baseAmount),
                   RMul(price, size)),
              pos.baseAmount)
    ELSE pos.averageEntryPrice

UpdateAverageEntryPrice(pos, type, price, size) ==
  IF type = "buy"
    THEN RDiv(RAdd(RMul(pos.averageEntryPrice, RSub(pos.baseAmount, size)),
                   RMul(price, size)),
              pos.baseAmount)
    ELSE pos.averageEntryPrice

\* executionPrice || order.price: a missing or zero execution price gives way
\* to the price of the order.
FinalPrice(order, executionPrice) ==
  IF executionPrice = Null \/ executionPrice = Zero THEN order.price
  ELSE executionPrice

Filled(pos, orderId, finalPrice) ==
  LET order == managerOrders[orderId]
  IN  Manager("none",
              [pos EXCEPT !.averageEntryPrice =
                 UpdateAverageEntryPrice(pos, order.type, finalPrice, order.size)],
              [managerOrders EXCEPT ![orderId].status = "filled"])

ExecutionUnchecked(orderId, executionPrice) ==
  IF \/ orderId \notin DOMAIN managerOrders
     \/ managerOrders[orderId].status # "pending"
    THEN Manager(InvalidOrder, position, managerOrders)
    ELSE LET order == managerOrders[orderId]
             finalPrice == FinalPrice(order, executionPrice)
             quoteAmount == RMul(order.size, finalPrice)
         IN  IF order.type = "buy"
               THEN Filled([position EXCEPT
                              !.quoteAmount = RSub(@, quoteAmount),
                              !.baseAmount = RAdd(@, order.size)],
                           orderId, finalPrice)
               ELSE Filled([position EXCEPT
                              !.baseAmount = RSub(@, order.size),
                              !.quoteAmount = RAdd(@, quoteAmount)],
                           orderId, finalPrice)

Execution(orderId, executionPrice) ==
  IF \/ orderId \notin DOMAIN managerOrders
     \/ managerOrders[orderId].status # "pending"
    THEN Manager(InvalidOrder, position, managerOrders)
    ELSE LET order == managerOrders[orderId]
             finalPrice == FinalPrice(order, executionPrice)
             quoteAmount == RMul(order.size, finalPrice)
         IN  IF order.type = "buy"
               THEN IF RLt(position.quoteAmount, quoteAmount)
                      THEN Manager(InsufficientQuote, position, managerOrders)
                      ELSE Filled([position EXCEPT
                                     !.quoteAmount = RSub(@, quoteAmount),
                                     !.baseAmount = RAdd(@, order.size)],
                                  orderId, finalPrice)
               ELSE IF RLt(position.baseAmount, order.size)
                      THEN Manager(InsufficientBase, position, managerOrders)
                      ELSE Filled([position EXCEPT
                                     !.baseAmount = RSub(@, order.size),
                                     !.quoteAmount = RAdd(@, quoteAmount)],
                                  orderId, finalPrice)

ExecuteOrder(orderId, executionPrice) ==
  LET r == Execution(orderId, executionPrice)
  IN  /\ position' = r.position
      /\ managerOrders' = r.orders
      /\ returned' = Call("executeOrder",
                          [orderId |-> orderId, executionPrice |-> executionPrice],
                          r.threw)
      /\ StrategyUnchanged

CancellationOfAny(orderId) ==
  IF orderId \notin DOMAIN managerOrders
    THEN Manager(InvalidCancel, position, managerOrders)
    ELSE Manager("none", position,
                 [managerOrders EXCEPT ![orderId].status = "cancelled"])

Cancellation(orderId) ==
  IF \/ orderId \notin DOMAIN managerOrders
     \/ managerOrders[orderId].status # "pending"
    THEN Manager(InvalidCancel, position, managerOrders)
    ELSE Manager("none", position,
                 [managerOrders EXCEPT ![orderId].status = "cancelled"])

CancelOrder(orderId) ==
  LET r == Cancellation(orderId)
  IN  /\ position' = r.position
      /\ managerOrders' = r.orders
      /\ returned' = Call("cancelOrder", orderId, r.threw)
      /\ StrategyUnchanged

IsPending(order) == order.status = "pending"

GetPendingOrders ==
  /\ returned' = Call("getPendingOrders", Null, SelectSeq(managerOrders, IsPending))
  /\ UNCHANGED <<position, managerOrders>>
  /\ StrategyUnchanged

RECURSIVE RealizedOver(_, _)
RealizedOver(ords, average) ==
  IF ords = << >> THEN Zero
  ELSE LET order == Head(ords)
           rest == RealizedOver(Tail(ords), average)
       IN  IF order.status = "filled" /\ order.type = "sell"
             THEN RAdd(RMul(RSub(order.price, average), order.size), rest)
             ELSE rest

CalculateRealizedPnL == RealizedOver(managerOrders, position.averageEntryPrice)

CallCalculateRealizedPnL ==
  /\ returned' = Call("calculateRealizedPnL", Null, CalculateRealizedPnL)
  /\ UNCHANGED <<position, managerOrders>>
  /\ StrategyUnchanged

\* The tests give the manager its quote balance through the private field
\* before the first order is created.
Fund(quoteAmount) ==
  /\ managerOrders = << >>
  /\ position.quoteAmount # quoteAmount
  /\ position' = [position EXCEPT !.quoteAmount = quoteAmount]
  /\ returned' = Call("fund", quoteAmount, "none")
  /\ UNCHANGED managerOrders
  /\ StrategyUnchanged

PmFunds == { R(1000), R(100000) }

PmOrders ==
  { [type |-> "buy", price |-> R(20000), size |-> R(1)],
    [type |-> "sell", price |-> R(22000), size |-> Norm(1, 2)],
    [type |-> "buy", price |-> Zero, size |-> R(1)],
    [type |-> "buy", price |-> R(20000), size |-> Norm(1, 1000)],
    [type |-> "buy", price |-> R(20000), size |-> R(150)] }

PmExecutionPrices == { Null, R(21000) }

NextPm ==
  \/ \E q \in PmFunds : Fund(q)
  \/ \E o \in PmOrders : CreateOrder(o.type, o.price, o.size)
  \/ \E k \in 1..(MaxPmOrders + 1), p \in PmExecutionPrices : ExecuteOrder(k, p)
  \/ \E k \in 1..(MaxPmOrders + 1) : CancelOrder(k)
  \/ GetPendingOrders
  \/ CallCalculateRealizedPnL

SpecPm == InitPm /\ [][NextPm]_vars

\* ---------------------------------------------------- limit-order strategy
\* GridTradingStrategy of src/src/grid-trading.ts: limit orders resting on the
\* grid levels. An instance is a record of its fields; `shared` tells that
\* this.position is the object the caller passed as initialPosition (line
\* 63), otherwise it is the object of the field initializer (lines 52-55),
\* kept in the field `position`. An absent order (undefined) is Null.
\* Line 162 declares `buyPrice` a second time in the block of line 158; the
\* two are read in sequence, as the emitted `var` declarations are.
MaxLimitCalls == 4

LimitConfigs ==
  { [lowerPrice |-> R(1), upperPrice |-> R(5), gridCount |-> R(4), totalInvestment |-> R(240)],
    [lowerPrice |-> R(2), upperPrice |-> R(6), gridCount |-> R(2), totalInvestment |-> R(24)] }

\* Observed prices, on and between the levels, and one above every grid.
LimitPrices == { R(k) : k \in 1..7 } \cup { Norm(5, 2), Norm(7, 2) }

\* Prices at which the orders are placed.
PlacementPrices == { R(3), R(4) }

Strategies == 1..2

PriceStep == RDiv(RSub(config.upperPrice, config.lowerPrice), config.gridCount)

LimitOrder(price, size, side) ==
  [price |-> price, size |-> size, side |-> side, status |-> "pending"]

LimitGridLevels(c) ==
  [i \in 0..Floor(c.gridCount) |->
     LET price == RAdd(c.lowerPrice,
                       RMul(R(i), RDiv(RSub(c.upperPrice, c.lowerPrice), c.gridCount)))
         buyOrderSize == RDiv(RDiv(c.totalInvestment, c.gridCount), price)
     IN  [price |-> price,
          buyOrderSize |-> buyOrderSize,
          sellOrderSize |-> buyOrderSize,
          buyOrder |-> Null,
          sellOrder |-> Null]]

InitLimit ==
  /\ config \in LimitConfigs
  /\ gridSpacing = Null
  /\ gridLevels = Null
  /\ lastPrice = Null
  /\ executedOrders = << >>
  /\ baseTokenBalance = Zero
  /\ quoteTokenBalance = Zero
  /\ calls = 0
  /\ observation = Null
  /\ previous = Null
  /\ outcome = "none"
  /\ attempt = "none"
  /\ filled = FALSE
  /\ returned = Call("none", Null, Null)
  /\ position = Null
  /\ managerOrders = Null
  /\ strategies = [i \in Strategies |-> Null]
  /\ initialPosition = [baseAmount |-> Zero, quoteAmount |-> config.totalInvestment]

\* The variables of the crossing engine and of the position manager.
LimitFrame ==
  UNCHANGED <<config, gridSpacing, gridLevels, lastPrice, executedOrders,
              baseTokenBalance, quoteTokenBalance, observation, previous,
              outcome, attempt, filled, position, managerOrders>>

\* this.position of instance i.
PositionOf(i) ==
  IF strategies[i].shared THEN initialPosition ELSE strategies[i].position

\* new GridTradingStrategy(config, initialPosition?, currentPrice?)
NewStrategy(i, passesPosition, currentPrice) ==
  /\ strategies[i] = Null
  /\ strategies' =
       [strategies EXCEPT ![i] =
          [gridLevels |-> LimitGridLevels(config),
           shared |-> passesPosition,
           position |-> [baseAmount |-> Zero, quoteAmount |-> Zero],
           realizedPnL |-> Zero,
           currentPrice |-> IF currentPrice = Null \/ currentPrice = Zero
                              THEN Zero ELSE currentPrice]]
  /\ returned' = Call("constructor", [strategy |-> i, price |-> currentPrice], Null)
  /\ UNCHANGED <<initialPosition, calls>>
  /\ LimitFrame

PlacedLevel(level, currentPrice) ==
  LET withBuy ==
        IF RLt(level.price, currentPrice) /\ level.buyOrder = Null
          THEN [level EXCEPT !.buyOrder =
                  LimitOrder(level.price, level.buyOrderSize, "buy")]
          ELSE level
  IN  IF RLt(currentPrice, level.price) /\ withBuy.sellOrder = Null
        THEN [withBuy EXCEPT !.sellOrder =
                LimitOrder(level.price, level.sellOrderSize, "sell")]
        ELSE withBuy

PlaceLimitOrders(i, currentPrice) ==
  /\ strategies[i] # Null
  /\ calls < MaxLimitCalls
  /\ calls' = calls + 1
  /\ strategies' =
       [strategies EXCEPT
          ![i].currentPrice = currentPrice,
          ![i].gridLevels =
             [k \in DOMAIN @ |-> PlacedLevel(@[k], currentPrice)]]
  /\ returned' = Call("placeLimitOrders", [strategy |-> i, price |-> currentPrice], Null)
  /\ UNCHANGED initialPosition
  /\ LimitFrame

\* The fields one pass of the loop of monitorAndUpdateOrders reads and writes.
Books(levels, pos, pnl) == [gridLevels |-> levels, position |-> pos, realizedPnL |-> pnl]

BuyTriggered(level, newPrice, oldPrice) ==
  /\ level.buyOrder # Null
  /\ level.buyOrder.status = "pending"
  /\ RLe(newPrice, level.price)
  /\ RLt(level.price, oldPrice)

SellTriggered(level, newPrice, oldPrice) ==
  /\ level.sellOrder # Null
  /\ level.sellOrder.status = "pending"
  /\ RLe(level.price, newPrice)
  /\ RLt(oldPrice, level.price)

\* The buy fill that pays the level's price instead of the order's.
FillBuyAtLevelPrice(b, k) ==
  LET level == b.gridLevels[k]
      filledBuyOrder == level.buyOrder
      cost == RMul(level.price, filledBuyOrder.size)
      sellPrice == RAdd(level.price, PriceStep)
  IN  Books([b.gridLevels EXCEPT
               ![k].buyOrder = Null,
               ![k].sellOrder = LimitOrder(sellPrice, filledBuyOrder.size, "sell")],
            [baseAmount |-> RAdd(b.position.baseAmount, filledBuyOrder.size),
             quoteAmount |-> RSub(b.position.quoteAmount, cost)],
            b.realizedPnL)

FillBuy(b, k) ==
  LET level == b.gridLevels[k]
      filledBuyOrder == level.buyOrder
      cost == RMul(filledBuyOrder.price, filledBuyOrder.size)
      sellPrice == RAdd(level.price, PriceStep)
  IN  Books([b.gridLevels EXCEPT
               ![k].buyOrder = Null,
               ![k].sellOrder = LimitOrder(sellPrice, filledBuyOrder.size, "sell")],
            [baseAmount |-> RAdd(b.position.baseAmount, filledBuyOrder.size),
             quoteAmount |-> RSub(b.position.quoteAmount, cost)],
            b.realizedPnL)

FillSell(b, k) ==
  LET level == b.gridLevels[k]
      filledSellOrder == level.sellOrder
      revenue == RMul(filledSellOrder.price, filledSellOrder.size)
      boughtAt == IF level.buyOrder = Null \/ level.buyOrder.price = Zero
                    THEN level.price ELSE level.buyOrder.price
      buyPrice == RSub(level.price, PriceStep)
  IN  Books([b.gridLevels EXCEPT
               ![k].sellOrder = Null,
               ![k].buyOrder = LimitOrder(buyPrice, filledSellOrder.size, "buy")],
            [baseAmount |-> RSub(b.position.baseAmount, filledSellOrder.size),
             quoteAmount |-> RAdd(b.position.quoteAmount, revenue)],
            RAdd(b.realizedPnL,
                 RMul(RSub(filledSellOrder.price, boughtAt), filledSellOrder.size)))

\* One pass of the loop body: the buy check, then the sell check.
ProcessLevel(b, k, newPrice, oldPrice) ==
  LET afterBuy == IF BuyTriggered(b.gridLevels[k], newPrice, oldPrice)
                    THEN FillBuy(b, k) ELSE b
  IN  IF SellTriggered(afterBuy.gridLevels[k], newPrice, oldPrice)
        THEN FillSell(afterBuy, k) ELSE afterBuy

\* The levels in the order of the loop: from the top when the price rose.
LevelOrder(newPrice, oldPrice) ==
  LET n == Floor(config.gridCount)
  IN  IF RLt(oldPrice, newPrice) THEN [j \in 1..(n + 1) |-> n + 1 - j]
      ELSE [j \in 1..(n + 1) |-> j - 1]

RECURSIVE ProcessLevels(_, _, _, _)
ProcessLevels(b, order, newPrice, oldPrice) ==
  IF order = << >> THEN b
  ELSE ProcessLevels(ProcessLevel(b, Head(order), newPrice, oldPrice),
                     Tail(order), newPrice, oldPrice)

MonitorAndUpdateOrders(i, newPrice) ==
  /\ strategies[i] # Null
  /\ calls < MaxLimitCalls
  /\ calls' = calls + 1
  /\ LET oldPrice == strategies[i].currentPrice
         b == ProcessLevels(Books(strategies[i].gridLevels, PositionOf(i),
                                  strategies[i].realizedPnL),
                            LevelOrder(newPrice, oldPrice), newPrice, oldPrice)
     IN  /\ strategies' =
               [strategies EXCEPT
                  ![i].currentPrice = newPrice,
                  ![i].gridLevels = b.gridLevels,
                  ![i].realizedPnL = b.realizedPnL,
                  ![i].position = IF strategies[i].shared THEN @ ELSE b.position]
         /\ initialPosition' =
               IF strategies[i].shared THEN b.position ELSE initialPosition
  /\ returned' = Call("monitorAndUpdateOrders", [strategy |-> i, price |-> newPrice], Null)
  /\ LimitFrame

CalculatePnL(i) ==
  /\ strategies[i] # Null
  /\ returned' = Call("calculatePnL", [strategy |-> i], strategies[i].realizedPnL)
  /\ UNCHANGED <<strategies, initialPosition, calls>>
  /\ LimitFrame

\* { ...this.position }
GetPosition(i) ==
  /\ strategies[i] # Null
  /\ returned' = Call("getPosition", [strategy |-> i], PositionOf(i))
  /\ UNCHANGED <<strategies, initialPosition, calls>>
  /\ LimitFrame

\* One strategy, with or without an initial position.
NextLimit ==
  \/ \E passes \in BOOLEAN, p \in {Null, R(3)} : NewStrategy(1, passes, p)
  \/ \E p \in PlacementPrices : PlaceLimitOrders(1, p)
  \/ \E p \in LimitPrices : MonitorAndUpdateOrders(1, p)
  \/ CalculatePnL(1)
  \/ GetPosition(1)

SpecLimit == InitLimit /\ [][NextLimit]_vars

\* One strategy started with the position {0, totalInvestment}: the orders
\* are placed once and the observations stay inside the grid.
InGrid(p) == RLe(config.lowerPrice, p) /\ RLe(p, config.upperPrice)

PlaceFirst(p) ==
  /\ calls = 0
  /\ InGrid(p)
  /\ PlaceLimitOrders(1, p)

MonitorInGrid(p) ==
  /\ calls >= 1
  /\ InGrid(p)
  /\ MonitorAndUpdateOrders(1, p)

NextFunded ==
  \/ \E p \in {Null, R(3)} : NewStrategy(1, TRUE, p)
  \/ \E p \in LimitPrices : PlaceFirst(p)
  \/ \E p \in LimitPrices : MonitorInGrid(p)

SpecFunded == InitLimit /\ [][NextFunded]_vars

\* Two strategies of one caller, who passes the same initialPosition object
\* to each constructor it gives a position to.
SharedPrices == { R(2), R(3), R(4) }

NextShared ==
  \/ \E i \in Strategies, passes \in BOOLEAN : NewStrategy(i, passes, R(3))
  \/ \E i \in Strategies : PlaceLimitOrders(i, R(3))
  \/ \E i \in Strategies, p \in SharedPrices : MonitorAndUpdateOrders(i, p)
  \/ \E i \in Strategies : CalculatePnL(i)
  \/ \E i \in Strategies : GetPosition(i)

SpecShared == InitLimit /\ [][NextShared]_vars

\* ================================================================= claims
\* Helpers of the statements below.
Idx(p) == GetCurrentGridIndex(p)

NewOrder == executedOrders'[Len(executedOrders')]

LedgerUnchanged == UNCHANGED <<executedOrders, baseTokenBalance, quoteTokenBalance>>

RECURSIVE SumNotional(_, _)
SumNotional(orders, type) ==
  IF orders = << >> THEN Zero
  ELSE LET o == orders[Len(orders)]
           rest == SumNotional(SubSeq(orders, 1, Len(orders) - 1), type)
       IN  IF o.type = type THEN RAdd(rest, RMul(o.price, o.quantity)) ELSE rest

HasOrder(type) ==
  \E i \in 1..Len(executedOrders) :
     executedOrders[i].type = type /\ RLt(Zero, executedOrders[i].quantity)

\* ---- C1
NonNegativeBalances ==
  RLe(Zero, baseTokenBalance) /\ RLe(Zero, quoteTokenBalance)

FundedStep ==
  Len(executedOrders') > Len(executedOrders) =>
    /\ NewOrder.type = "buy" =>
         RLe(RMul(NewOrder.price, NewOrder.quantity), quoteTokenBalance)
    /\ NewOrder.type = "sell" => RLe(NewOrder.quantity, baseTokenBalance)

\* C1: both balances are >= 0 in every reachable state, and an order is
\* appended only if the balance it spends covered it immediately before
\* (quote >= price x quantity for a buy, base >= quantity for a sell).
C1_Solvency == [](NonNegativeBalances) /\ [][FundedStep]_vars

\* A buy and a sell were recorded and the sell used up the whole base balance.
C1_Witness ==
  HasOrder("buy") /\ HasOrder("sell") /\ baseTokenBalance = Zero

\* ---- C2
\* C2: an out-of-range observation ends without an internal error and leaves
\* the balances and the trade history unchanged, wherever it comes in the
\* sequence of observations.
C2_OutOfRangeRecoverable ==
  [][Idx(observation') = -1 => outcome' = "returned" /\ LedgerUnchanged]_vars

\* ---- C3
\* C3: at every prefix of the trade history the quantity sold is at most the
\* quantity bought, and the FIFO replay of the prefix leaves no sell quantity
\* unmatched.
C3_FifoNeverUnderflows ==
  \A k \in 0..Len(executedOrders) :
     LET h == SubSeq(executedOrders, 1, k)
     IN  /\ RLe(SumQty(h, "sell"), SumQty(h, "buy"))
         /\ FifoReplay(h).unmatched = Zero

\* A sell was matched against the open lots and a lot is still open.
C3_Witness ==
  /\ HasOrder("sell")
  /\ Len(executedOrders) >= 3
  /\ Len(FifoReplay(executedOrders).buyStack) >= 1

\* ---- C4
LedgerMatchesHistory ==
  /\ quoteTokenBalance =
       RAdd(RSub(config.totalInvestment, SumNotional(executedOrders, "buy")),
            SumNotional(executedOrders, "sell"))
  /\ baseTokenBalance =
       RSub(SumQty(executedOrders, "buy"), SumQty(executedOrders, "sell"))

LedgerStep ==
  \/ LedgerUnchanged
  \/ /\ executedOrders' = Append(executedOrders, NewOrder)
     /\ NewOrder.type \in {"buy", "sell"}
     /\ NewOrder.type = "buy" =>
          /\ quoteTokenBalance' =
               RSub(quoteTokenBalance, RMul(NewOrder.price, NewOrder.quantity))
          /\ baseTokenBalance' = RAdd(baseTokenBalance, NewOrder.quantity)
     /\ NewOrder.type = "sell" =>
          /\ quoteTokenBalance' =
               RAdd(quoteTokenBalance, RMul(NewOrder.price, NewOrder.quantity))
          /\ baseTokenBalance' = RSub(baseTokenBalance, NewOrder.quantity)

\* C4: the balances are the initial ones plus the effect of the recorded
\* orders, and every step either leaves history and balances alone or appends
\* exactly one order and moves both balances by that order's amounts.
C4_LedgerAgreesWithHistory == [](LedgerMatchesHistory) /\ [][LedgerStep]_vars

\* Buys and a sell at different prices were recorded and base is still held.
C4_Witness ==
  /\ HasOrder("buy") /\ HasOrder("sell")
  /\ Len(executedOrders) >= 3
  /\ RLt(Zero, baseTokenBalance)

\* ---- C5
\* C5: after every call checkPriceMovement(p) the stored last price is p.
C5_LastPriceIsObservation == calls > 0 => lastPrice = observation

\* ---- C6
\* C6: after the first observation a buy is appended only by an observation
\* whose grid index is lower than the previous observation's, a sell only by
\* one whose grid index is higher.
C6_TradeFollowsCrossing ==
  [][(observation # Null /\ Len(executedOrders') > Len(executedOrders)) =>
       /\ NewOrder.type = "buy" => Idx(observation') < Idx(observation)
       /\ NewOrder.type = "sell" => Idx(observation') > Idx(observation)]_vars

\* ---- C7
\* C7: a call appends at most one order, and when the grid index of the
\* observation differs by two or more from that of the previous observation
\* the call attempts one order in the direction of the move.
C7_OneAttemptPerJump ==
  [][/\ Len(executedOrders') <= Len(executedOrders) + 1
     /\ (observation # Null /\ Abs(Idx(observation') - Idx(observation)) >= 2) =>
          attempt' = IF Idx(observation') < Idx(observation) THEN "buy" ELSE "sell"]_vars

\* ---- C8
\* C8: an observation with the same grid index as the previous observation
\* appends nothing and leaves both balances unchanged.
C8_NoTradeWithinLevel ==
  [][(observation # Null /\ Idx(observation') = Idx(observation)) =>
       LedgerUnchanged]_vars

\* Two different in-range prices of one level were observed in a row while
\* the engine held base and quote, so that either order could have filled.
C8_Witness ==
  /\ previous # Null
  /\ previous # observation
  /\ Idx(previous) = Idx(observation)
  /\ Idx(observation) >= 1
  /\ RLt(Zero, baseTokenBalance)
  /\ RLt(Zero, quoteTokenBalance)

\* ---- C9
\* C9: the first observation records exactly one buy, at the observed price
\* and grid index 0, when its grid index is 0, and records nothing otherwise.
C9_FirstObservationSeeds ==
  [][observation = Null =>
       executedOrders' =
         IF Idx(observation') = 0
         THEN <<[type |-> "buy", price |-> observation',
                 quantity |-> gridLevels[0].buyOrderSize, gridIndex |-> 0]>>
         ELSE << >>]_vars

\* ---- C10
SkippedBuy ==
  /\ attempt' = "buy"
  /\ Idx(observation') # -1
  /\ RLt(quoteTokenBalance,
         RMul(observation', gridLevels[Idx(observation')].buyOrderSize))

SkippedSell ==
  /\ attempt' = "sell"
  /\ Idx(observation') # -1
  /\ RLt(baseTokenBalance, gridLevels[Idx(observation')].sellOrderSize)

\* C10: a buy that the quote balance does not cover, or a sell that the base
\* balance does not cover, raises no error, appends nothing, changes no
\* balance, and the call still stores the observed price for the next one.
C10_InsufficientBalanceSkips ==
  [][(SkippedBuy \/ SkippedSell) =>
       /\ outcome' = "returned"
       /\ ~filled'
       /\ LedgerUnchanged
       /\ lastPrice' = observation']_vars

\* After earlier trades, a downward crossing found too little quote to buy.
C10_Witness ==
  /\ attempt = "buy"
  /\ outcome = "returned"
  /\ ~filled
  /\ calls >= 2
  /\ HasOrder("buy")

\* ---- C11
IsPrefix(a, b) == Len(a) <= Len(b) /\ SubSeq(b, 1, Len(a)) = a

\* C11: every operation of the engine (checkPriceMovement,
\* getCurrentProfitLoss, getTradeHistory, getGridLevels) leaves the orders
\* already recorded in place and unchanged: the history before a step is a
\* prefix of the history after it.
C11_HistoryAppendOnly == [][IsPrefix(executedOrders, executedOrders')]_vars

\* The profit and loss was computed over a history in which a sell consumed
\* recorded buys.
C11_Witness ==
  /\ returned.op = "getCurrentProfitLoss"
  /\ Len(executedOrders) >= 2
  /\ HasOrder("sell")

\* ---- C12
RECURSIVE RSum(_)
RSum(seq) == IF seq = << >> THEN Zero ELSE RAdd(Head(seq), RSum(Tail(seq)))

RMax(a, b) == IF RLt(a, b) THEN b ELSE a

\* Length of the overlap of the intervals [lo1, hi1) and [lo2, hi2).
Overlap(lo1, hi1, lo2, hi2) ==
  RMax(Zero, RSub(RMin(hi1, hi2), RMax(lo1, lo2)))

\* FIFO by position: the i-th order, if a buy (sell), covers the stretch of
\* base units from the quantity bought (sold) before it up to the quantity
\* bought (sold) with it; a sell is matched with a buy on the units the two
\* stretches share, and the units beyond the total sold are still open.
UnitsFrom(orders, i) == SumQty(SubSeq(orders, 1, i - 1), orders[i].type)
UnitsTo(orders, i) == SumQty(SubSeq(orders, 1, i), orders[i].type)

Used(orders, b, s) ==
  IF orders[b].type = "buy" /\ orders[s].type = "sell"
  THEN Overlap(UnitsFrom(orders, b), UnitsTo(orders, b),
               UnitsFrom(orders, s), UnitsTo(orders, s))
  ELSE Zero

OpenQty(orders, b) ==
  IF orders[b].type = "buy"
  THEN Overlap(UnitsFrom(orders, b), UnitsTo(orders, b),
               SumQty(orders, "sell"), SumQty(orders, "buy"))
  ELSE Zero

RefRealized(orders) ==
  RSum([s \in 1..Len(orders) |->
          RSum([b \in 1..Len(orders) |->
                  RMul(RSub(orders[s].price, orders[b].price), Used(orders, b, s))])])

RefUnrealized(orders, p) ==
  LET remaining == RSum([b \in 1..Len(orders) |-> OpenQty(orders, b)])
      openCost == RSum([b \in 1..Len(orders) |->
                          RMul(orders[b].price, OpenQty(orders, b))])
      average == IF remaining = Zero THEN Zero ELSE RDiv(openCost, remaining)
  IN  RMul(remaining, RSub(p, average))

\* The history the observations 20000, 21000, 22000, 21000, 20000 leave in
\* the 20000-30000 / 10 grids / 100000 configuration (the sell at 22000 is
\* skipped: nothing is held).
ExampleHistory ==
  << [type |-> "buy", price |-> R(20000), quantity |-> Norm(1, 2), gridIndex |-> 0],
     [type |-> "sell", price |-> R(21000), quantity |-> Norm(1, 2), gridIndex |-> 1],
     [type |-> "buy", price |-> R(21000), quantity |-> Norm(10, 21), gridIndex |-> 1],
     [type |-> "buy", price |-> R(20000), quantity |-> Norm(1, 2), gridIndex |-> 0] >>

\* x rounded to two decimals.
Round2(x) == Norm(Floor(RAdd(RMul(x, R(100)), Norm(1, 2))), 100)

\* C12: the value getCurrentProfitLoss(p) returns is realized plus unrealized
\* profit of the FIFO reference, and the realized part the replay accumulates
\* is the reference's; for the example history and the price 20000 the
\* value is 500/21, which is 23.81 to two decimals.
C12_MatchesFifoReference ==
  returned.op = "getCurrentProfitLoss" =>
    /\ FifoReplay(executedOrders).realizedPnL = RefRealized(executedOrders)
    /\ returned.value =
         RAdd(RefRealized(executedOrders), RefUnrealized(executedOrders, returned.arg))
    /\ (executedOrders = ExampleHistory /\ returned.arg = R(20000)) =>
         (returned.value = Norm(500, 21) /\ Round2(returned.value) = Norm(2381, 100))

\* The profit and loss of the example was computed after its five
\* observations.
C12_Witness ==
  /\ calls = 5
  /\ executedOrders = ExampleHistory
  /\ returned = Call("getCurrentProfitLoss", R(20000), Norm(500, 21))

\* ---- C14
\* C14: a call of getCurrentProfitLoss changes neither the history nor the
\* balances nor the stored last price, and a call that directly follows
\* another call with the same price returns the same value.
C14_ProfitLossIsPureRead ==
  [][returned'.op = "getCurrentProfitLoss" =>
       /\ UNCHANGED <<executedOrders, baseTokenBalance, quoteTokenBalance, lastPrice>>
       /\ (returned.op = "getCurrentProfitLoss" /\ returned.arg = returned'.arg) =>
            returned'.value = returned.value]_vars

\* A non-zero profit and loss was returned for a history with a sell and an
\* open lot.
C14_Witness ==
  /\ returned.op = "getCurrentProfitLoss"
  /\ returned.value # Zero
  /\ HasOrder("sell")
  /\ Len(FifoReplay(executedOrders).buyStack) >= 1

\* ---- C15
\* The per-order formula: (current - price) x quantity for a buy,
\* (price - current) x quantity for a sell.
PerOrderSum(currentPrice) ==
  RSum([i \in 1..Len(executedOrders) |->
          IF executedOrders[i].type = "buy"
          THEN RMul(RSub(currentPrice, executedOrders[i].price),
                    executedOrders[i].quantity)
          ELSE RMul(RSub(executedOrders[i].price, currentPrice),
                    executedOrders[i].quantity)])

\* Total value minus total investment.
ValueMinusInvestment(currentPrice) ==
  RSub(RAdd(quoteTokenBalance, RMul(baseTokenBalance, currentPrice)),
       config.totalInvestment)

PartlyConsumedLot ==
  \E b \in 1..Len(executedOrders) :
     /\ RLt(Zero, OpenQty(executedOrders, b))
     /\ RLt(OpenQty(executedOrders, b), executedOrders[b].quantity)

\* C15 as stated: with a partially consumed lot in the history there is a
\* current price at which the FIFO value differs from the per-order sum and
\* from total value minus total investment.
C15_SimplerFormulasDiffer ==
  PartlyConsumedLot =>
    \E p \in Prices :
       /\ GetCurrentProfitLoss(p) # PerOrderSum(p)
       /\ GetCurrentProfitLoss(p) # ValueMinusInvestment(p)

\* C15 amended: on every history the engine can produce, and for every
\* current price, the FIFO value equals the per-order sum and total value
\* minus total investment.
C15_SimplerFormulasAgree ==
  \A p \in Prices :
     /\ GetCurrentProfitLoss(p) = PerOrderSum(p)
     /\ GetCurrentProfitLoss(p) = ValueMinusInvestment(p)

\* A history with a partially consumed lot.
C15_Witness == PartlyConsumedLot /\ Len(executedOrders) >= 3

\* ---- C17
\* C17: every executed buy spends exactly totalInvestment / gridCount of
\* quote, whatever observed price triggered it.
C17_EqualNotionalPerBuy ==
  [][(Len(executedOrders') = Len(executedOrders) + 1 /\ NewOrder.type = "buy") =>
       RSub(quoteTokenBalance, quoteTokenBalance') =
         RDiv(config.totalInvestment, config.gridCount)]_vars

\* ---- C16
\* C16: whatever a caller does with the array last returned by
\* getTradeHistory or getGridLevels, or with an object inside it, the
\* engine's trade history and grid levels stay as they were.
C16_AccessorsReturnSnapshots ==
  [][(calls' = calls /\ returned.op \in {"getTradeHistory", "getGridLevels"}
        /\ returned'.op = returned.op /\ returned'.value # returned.value) =>
       UNCHANGED <<executedOrders, gridLevels>>]_vars

\* ---- C18
UpperMessage == "Upper price must be greater than lower price"
CountMessage == "Grid count must be at least 2"
InvestmentMessage == "Total investment must be greater than 0"

BadPrices(c) == ~ RLt(c.lowerPrice, c.upperPrice)
BadCount(c) == ~ RLe(R(2), c.gridCount)
BadInvestment(c) == ~ RLt(Zero, c.totalInvestment)

\* C18: a construction with upperPrice <= lowerPrice, gridCount < 2 or
\* totalInvestment <= 0 throws and leaves no object; the message thrown names
\* a condition that is violated, and is the condition's own message when it
\* is the only one violated; a construction with none of them (in particular
\* with gridCount = 2) throws nothing and yields the object.
C18_ConstructorRejects ==
  returned.op = "constructor" =>
    LET c == returned.arg
        message == returned.value
    IN  /\ (BadPrices(c) \/ BadCount(c) \/ BadInvestment(c)) =>
              (message # "none" /\ config = Null)
        /\ message = UpperMessage => BadPrices(c)
        /\ message = CountMessage => BadCount(c)
        /\ message = InvestmentMessage => BadInvestment(c)
        /\ (BadPrices(c) /\ ~ BadCount(c) /\ ~ BadInvestment(c)) => message = UpperMessage
        /\ (BadCount(c) /\ ~ BadPrices(c) /\ ~ BadInvestment(c)) => message = CountMessage
        /\ (BadInvestment(c) /\ ~ BadPrices(c) /\ ~ BadCount(c)) => message = InvestmentMessage
        /\ (~ BadPrices(c) /\ ~ BadCount(c) /\ ~ BadInvestment(c)) =>
              (message = "none" /\ config = c)

\* A construction with the minimum grid count succeeded.
C18_Witness ==
  /\ returned.op = "constructor"
  /\ returned.arg.gridCount = R(2)
  /\ returned.value = "none"
  /\ config = returned.arg

\* ---- C19
\* C19: every constructed engine has upperPrice > lowerPrice > 0, an integer
\* gridCount >= 2 and totalInvestment > 0.
C19_ConstructedConfigIsValid ==
  config # Null =>
    /\ RLt(config.lowerPrice, config.upperPrice)
    /\ RLt(Zero, config.lowerPrice)
    /\ config.gridCount.d = 1
    /\ RLe(R(2), config.gridCount)
    /\ RLt(Zero, config.totalInvestment)

\* ---- C20
\* The configurations the data model calls valid.
ValidConfig(c) ==
  /\ RLt(c.lowerPrice, c.upperPrice)
  /\ RLt(Zero, c.lowerPrice)
  /\ c.gridCount.d = 1
  /\ RLe(R(2), c.gridCount)
  /\ RLt(Zero, c.totalInvestment)

\* C20: for a valid config getGridLevels returns gridCount + 1 levels, the
\* first priced lowerPrice, the last upperPrice, level i priced
\* lowerPrice + i x (upperPrice - lowerPrice) / gridCount, and consecutive
\* levels differ by the same step.
C20_GridLevels ==
  (returned.op = "getGridLevels" /\ ValidConfig(config)) =>
    LET levels == returned.value
        n == config.gridCount.n
    IN  /\ DOMAIN levels = 0..n
        /\ Cardinality(DOMAIN levels) = n + 1
        /\ levels[0].price = config.lowerPrice
        /\ levels[n].price = config.upperPrice
        /\ \A i \in 0..n :
              RMul(levels[i].price, R(n)) =
                RAdd(RMul(config.lowerPrice, R(n)),
                     RMul(R(i), RSub(config.upperPrice, config.lowerPrice)))
        /\ \A i \in 1..n :
              RSub(levels[i].price, levels[i - 1].price) =
                RSub(levels[1].price, levels[0].price)

\* getGridLevels returned the levels of a valid config with three grids.
C20_Witness ==
  /\ returned.op = "getGridLevels"
  /\ ValidConfig(config)
  /\ config.gridCount = R(3)
  /\ returned.value = gridLevels

\* ---- C13
\* C13: in the 20000-30000 / 10 grids / 100000 configuration, after the
\* observations 20000 and 21000, getCurrentProfitLoss(21000) returns
\* (100000 / 10 / 20000) x (21000 - 20000) = 500.
C13_RoundTrip ==
  (/\ calls = 2
   /\ previous = R(20000)
   /\ observation = R(21000)
   /\ returned.op = "getCurrentProfitLoss"
   /\ returned.arg = R(21000)) =>
     /\ returned.value = R(500)
     /\ returned.value =
          RMul(RDiv(RDiv(R(100000), R(10)), R(20000)), RSub(R(21000), R(20000)))

\* The round trip happened and its profit was read.
C13_Witness ==
  /\ calls = 2
  /\ previous = R(20000)
  /\ observation = R(21000)
  /\ Len(executedOrders) = 2
  /\ returned = Call("getCurrentProfitLoss", R(21000), R(500))

\* ---- C21
\* C21: for every level of a valid config, buyOrderSize is
\* (totalInvestment / gridCount) / level.price, that is, buyOrderSize x
\* level.price x gridCount = totalInvestment.
C21_BuyOrderSize ==
  (returned.op = "getGridLevels" /\ ValidConfig(config)) =>
    \A i \in DOMAIN returned.value :
       LET level == returned.value[i]
       IN  /\ RLt(Zero, level.price)
           /\ RMul(RMul(level.buyOrderSize, level.price), config.gridCount) =
                config.totalInvestment

\* getGridLevels returned the levels of a valid config whose levels have
\* different prices and so different sizes.
C21_Witness ==
  /\ returned.op = "getGridLevels"
  /\ ValidConfig(config)
  /\ returned.value[0].buyOrderSize # returned.value[1].buyOrderSize
  /\ config.totalInvestment = R(12)

\* ---- C22
\* C22: each level's sellOrderSize has the value of that level's
\* buyOrderSize.
C22_SellSizeEqualsBuySize ==
  (returned.op = "getGridLevels" /\ ValidConfig(config)) =>
    \A i \in DOMAIN returned.value :
       returned.value[i].sellOrderSize = returned.value[i].buyOrderSize

\* ---- C23
InRange(p) == RLe(config.lowerPrice, p) /\ RLe(p, config.upperPrice)

\* lowerPrice + k x (upperPrice - lowerPrice) / gridCount
PriceOfLevel(k) ==
  RAdd(config.lowerPrice,
       RDiv(RMul(R(k), RSub(config.upperPrice, config.lowerPrice)), config.gridCount))

Executed(k) == returned'.op = "executeOrder" /\ returned'.arg.orderId = k

Cancelled(k) == returned'.op = "cancelOrder" /\ returned'.arg = k

PendingIds == { k \in DOMAIN managerOrders : managerOrders[k].status = "pending" }

ManagerUnchanged == UNCHANGED <<position, managerOrders>>

\* C27: every order is created 'pending'; a pending order becomes 'filled'
\* only by executeOrder on it and 'cancelled' only by cancelOrder on it, and a
\* call of either that does not throw makes exactly that move; 'filled' and
\* 'cancelled' are terminal: executeOrder or cancelOrder on a filled,
\* cancelled or unknown order throws and changes neither an order nor the
\* position; getPendingOrders returns exactly the orders still pending.
C27_OrderLifecycle ==
  [][/\ DOMAIN managerOrders \subseteq DOMAIN managerOrders'
     /\ \A k \in DOMAIN managerOrders' \ DOMAIN managerOrders :
          /\ returned'.op = "createOrder"
          /\ managerOrders'[k].status = "pending"
     /\ \A k \in DOMAIN managerOrders :
          LET before == managerOrders[k].status
              after == managerOrders'[k].status
          IN  /\ before # "pending" => after = before
              /\ after # before =>
                   \/ after = "filled" /\ Executed(k)
                   \/ after = "cancelled" /\ Cancelled(k)
     /\ \A k \in 1..(MaxPmOrders + 1) :
          /\ Executed(k) /\ returned'.value = "none" =>
               /\ k \in PendingIds
               /\ managerOrders' = [managerOrders EXCEPT ![k].status = "filled"]
          /\ Cancelled(k) /\ returned'.value = "none" =>
               /\ k \in PendingIds
               /\ managerOrders' = [managerOrders EXCEPT ![k].status = "cancelled"]
               /\ UNCHANGED position
          /\ Executed(k) /\ k \notin PendingIds =>
               /\ returned'.value = InvalidOrder
               /\ ManagerUnchanged
          /\ Cancelled(k) /\ k \notin PendingIds =>
               /\ returned'.value = InvalidCancel
               /\ ManagerUnchanged
     /\ returned'.op = "getPendingOrders" =>
          LET pending == returned'.value
          IN  /\ Len(pending) = Cardinality(PendingIds)
              /\ \A k \in PendingIds :
                   \E i \in 1..Len(pending) : pending[i] = managerOrders[k]
              /\ \A i \in 1..Len(pending) : pending[i].id \in PendingIds
              /\ ManagerUnchanged
    ]_vars

\* cancelOrder has thrown on a filled order, next to an order still pending.
C27_Witness ==
  /\ returned.op = "cancelOrder"
  /\ returned.value = InvalidCancel
  /\ returned.arg \in DOMAIN managerOrders
  /\ managerOrders[returned.arg].status = "filled"
  /\ PendingIds # {}

\* ------------------------------------------------------------------- C28
\* C28: executeOrder on a pending buy whose cost, size times the price it
\* would execute at, exceeds quoteAmount throws 'Insufficient quote token
\* balance', and on a pending sell whose size exceeds baseAmount throws
\* 'Insufficient base token balance'; both leave the order pending and the
\* position (baseAmount, quoteAmount, averageEntryPrice) as it was.
C28_InsufficientBalanceThrows ==
  [][\A k \in PendingIds :
       Executed(k) =>
         LET order == managerOrders[k]
             price == FinalPrice(order, returned'.arg.executionPrice)
         IN  /\ (/\ order.type = "buy"
                 /\ RLt(position.quoteAmount, RMul(order.size, price))) =>
                  /\ returned'.value = InsufficientQuote
                  /\ managerOrders'[k].status = "pending"
                  /\ ManagerUnchanged
             /\ (/\ order.type = "sell"
                 /\ RLt(position.baseAmount, order.size)) =>
                  /\ returned'.value = InsufficientBase
                  /\ managerOrders'[k].status = "pending"
                  /\ ManagerUnchanged
    ]_vars

\* A buy of 1 at 20000 has been refused with 1000 of quote token at hand.
C28_Witness ==
  /\ returned.op = "executeOrder"
  /\ returned.value = InsufficientQuote
  /\ position.quoteAmount = R(1000)
  /\ managerOrders[returned.arg.orderId].status = "pending"

\* ------------------------------------------------------------------- C29
\* C29: an executeOrder that does not throw, of a buy of size s at price p,
\* adds s to baseAmount and takes s x p from quoteAmount; of a sell, takes s
\* from baseAmount and adds s x p to quoteAmount. After a buy
\* averageEntryPrice is the average of the previous average weighted by the
\* base held before and of p weighted by s (p itself when no base was held);
\* a sell leaves averageEntryPrice as it was.
C29_ExecutionUpdatesPosition ==
  [][\A k \in PendingIds :
       Executed(k) /\ returned'.value = "none" =>
         LET order == managerOrders[k]
             s == order.size
             p == FinalPrice(order, returned'.arg.executionPrice)
             held == position.baseAmount
         IN  IF order.type = "buy"
               THEN /\ position'.baseAmount = RAdd(held, s)
                    /\ position'.quoteAmount = RSub(position.quoteAmount, RMul(s, p))
                    /\ RMul(position'.averageEntryPrice, RAdd(held, s))
                         = RAdd(RMul(position.averageEntryPrice, held), RMul(p, s))
                    /\ held = Zero => position'.averageEntryPrice = p
               ELSE /\ position'.baseAmount = RSub(held, s)
                    /\ position'.quoteAmount = RAdd(position.quoteAmount, RMul(s, p))
                    /\ position'.averageEntryPrice = position.averageEntryPrice
    ]_vars

\* A second buy of 1, executed at 21000 on top of 1 bought at 20000.
C29_Witness ==
  /\ returned.op = "executeOrder"
  /\ returned.value = "none"
  /\ managerOrders[returned.arg.orderId].type = "buy"
  /\ position.baseAmount = R(2)
  /\ position.averageEntryPrice = R(20500)

\* ------------------------------------------------------------------- C30
\* C30: calculateRealizedPnL is the sum over the filled sells of (sell price
\* - average entry price at the time of that sale) x size, so executing a
\* further buy does not change what the sales before it have realized.
C30_LaterBuysKeepRealizedPnL ==
  [][\A k \in PendingIds :
       (/\ Executed(k)
        /\ returned'.value = "none"
        /\ managerOrders[k].type = "buy") =>
         CalculateRealizedPnL' = CalculateRealizedPnL
    ]_vars

\* ------------------------------------------------------------------- C31
Placed(i) == returned'.op = "placeLimitOrders" /\ returned'.arg.strategy = i

Monitored(i) == returned'.op = "monitorAndUpdateOrders" /\ returned'.arg.strategy = i

\* C31: after placeLimitOrders(p) on a freshly constructed strategy every
\* level priced at or below p holds a pending buy order at the level's own
\* price, and the levels priced above p hold neither a buy nor a sell order.
C31_InitialOrders ==
  [][\A i \in Strategies :
       Placed(i) /\ strategies[i].gridLevels = LimitGridLevels(config) =>
         \A k \in DOMAIN strategies'[i].gridLevels :
           LET level == strategies'[i].gridLevels[k]
           IN  IF RLe(level.price, returned'.arg.price)
                 THEN /\ level.buyOrder # Null
                      /\ level.buyOrder.status = "pending"
                      /\ level.buyOrder.price = level.price
                 ELSE /\ level.buyOrder = Null
                      /\ level.sellOrder = Null
    ]_vars

\* ------------------------------------------------------------------- C32
\* The levels of instance i whose pending buy the price newPrice reaches
\* coming from above the level.
BuysReached(i, newPrice) ==
  { k \in DOMAIN strategies[i].gridLevels :
      LET level == strategies[i].gridLevels[k]
      IN  /\ level.buyOrder # Null
          /\ level.buyOrder.status = "pending"
          /\ RLt(level.price, strategies[i].currentPrice)
          /\ RLe(newPrice, level.price) }

RECURSIVE BoughtSize(_, _)
BoughtSize(levels, reached) ==
  IF reached = {} THEN Zero
  ELSE LET k == CHOOSE k \in reached : TRUE
       IN  RAdd(levels[k].buyOrder.size, BoughtSize(levels, reached \ {k}))

RECURSIVE BoughtCost(_, _)
BoughtCost(levels, reached) ==
  IF reached = {} THEN Zero
  ELSE LET k == CHOOSE k \in reached : TRUE
       IN  RAdd(RMul(levels[k].buyOrder.price, levels[k].buyOrder.size),
                BoughtCost(levels, reached \ {k}))

\* The buy of level k is gone and a pending sell of its size rests on the
\* level, one grid step above the level's price.
BuyTurnedIntoSell(i, k) ==
  LET level == strategies[i].gridLevels[k]
      after == strategies'[i].gridLevels[k]
  IN  /\ after.buyOrder = Null
      /\ after.sellOrder = [price |-> RAdd(level.price, PriceStep),
                            size |-> level.buyOrder.size,
                            side |-> "sell", status |-> "pending"]
      /\ after.price = level.price

SellsFilled(i, newPrice) ==
  { k \in DOMAIN strategies[i].gridLevels :
      LET level == strategies[i].gridLevels[k]
      IN  /\ level.sellOrder # Null
          /\ level.sellOrder.status = "pending"
          /\ RLt(strategies[i].currentPrice, level.price)
          /\ RLe(level.price, newPrice) }

RECURSIVE SoldSize(_, _)
SoldSize(levels, sold) ==
  IF sold = {} THEN Zero
  ELSE LET k == CHOOSE k \in sold : TRUE
       IN  RAdd(levels[k].sellOrder.size, SoldSize(levels, sold \ {k}))

\* C33: every filled sell adds (sell price - the price one grid step below
\* it) x size, that is step x size, to calculatePnL.
C33_EachSellAddsStepTimesSize ==
  [][\A i \in Strategies :
       Monitored(i) =>
         strategies'[i].realizedPnL =
           RAdd(strategies[i].realizedPnL,
                RMul(PriceStep,
                     SoldSize(strategies[i].gridLevels,
                              SellsFilled(i, returned'.arg.price))))
    ]_vars

\* ------------------------------------------------------------------- C34
\* C34: an order is filled only when the observed price has reached its own
\* limit price: a buy only by an observation at or below order.price, a sell
\* only by an observation at or above order.price, the orders re-placed
\* after a fill included.  A filled order is one that has left its level.
C34_FilledAtLimitPrice ==
  [][\A i \in Strategies :
       Monitored(i) =>
         \A k \in DOMAIN strategies[i].gridLevels :
           LET level == strategies[i].gridLevels[k]
               after == strategies'[i].gridLevels[k]
               observed == returned'.arg.price
           IN  /\ (level.buyOrder # Null /\ after.buyOrder = Null) =>
                    RLe(observed, level.buyOrder.price)
               /\ (level.sellOrder # Null /\ after.sellOrder = Null) =>
                    RLe(level.sellOrder.price, observed)
    ]_vars

\* ------------------------------------------------------------------- C35
\* C35: started with the position {baseAmount 0, quoteAmount
\* totalInvestment}, after placeLimitOrders and any sequence of
\* monitorAndUpdateOrders calls with prices inside [lowerPrice, upperPrice],
\* baseAmount >= 0 and quoteAmount >= 0.
C35_PositionNeverNegative ==
  \A i \in Strategies :
    strategies[i] # Null =>
      /\ RLe(Zero, PositionOf(i).baseAmount)
      /\ RLe(Zero, PositionOf(i).quoteAmount)

\* ------------------------------------------------------------------- C36
\* C36: the fills processed by one strategy change neither the
\* initialPosition object its caller passed to the constructor nor the
\* position of another instance constructed from the same object.
C36_InstanceOwnsItsLedger ==
  [][\A i \in Strategies :
       Monitored(i) =>
         /\ initialPosition' = initialPosition
         /\ \A j \in Strategies \ {i} :
              strategies[j] # Null => PositionOf(j)' = PositionOf(j)
    ]_vars

\* ------------------------------------------------------------------- C37
\* C37: every order recorded in the trade history, whatever the observations
\* were, has quantity > 0 and a price within [lowerPrice, upperPrice].
C37_RecordedOrdersArePositive ==
  \A k \in 1..Len(executedOrders) :
    /\ RLt(Zero, executedOrders[k].quantity)
    /\ RLe(config.lowerPrice, executedOrders[k].price)
    /\ RLe(executedOrders[k].price, config.upperPrice)

\* ------------------------------------------------------------------- C38
\* The balances the orders of a history leave, starting from
\* {0, totalInvestment}.
BaseAfter(history) == RSub(SumQty(history, "buy"), SumQty(history, "sell"))

QuoteAfter(history) ==
  RAdd(RSub(config.totalInvestment, SumNotional(history, "buy")),
       SumNotional(history, "sell"))

\* The last two orders are a buy at the price of its level and a sell at the
\* price of the level above it.
RoundTrip(history) ==
  /\ Len(history) >= 2
  /\ LET buy == history[Len(history) - 1]
         sell == history[Len(history)]
     IN  /\ buy.type = "buy"
         /\ sell.type = "sell"
         /\ buy.price = PriceOfLevel(buy.gridIndex)
         /\ sell.gridIndex = buy.gridIndex + 1
         /\ sell.price = PriceOfLevel(sell.gridIndex)

====
